---------------------------- MODULE Spec2Model ----------------------------
(***************************************************************************)
(* State-machine models of the concurrent examples of the repository:      *)
(*   item_39_use_queue.py  the polling pipeline (MyQueue + Worker), the    *)
(*                         three Queue demos and the ClosableQueue         *)
(*                         pipeline (StoppableWorker);                     *)
(*   item_38_use_lock.py   Counter and LockingCounter under run_threads;   *)
(*   item_40_consider_coroutines.py  the Game of Life coroutines;          *)
(*   item_13_try_except_else_finally.py  divide_json;                      *)
(*   item_24_use_classmethod.py  mapreduce and execute;                    *)
(*   item_56_unittest.py   to_str.                                         *)
(* Every thread is a process with a program counter; one action is one     *)
(* step a thread takes between two points where it can be suspended.       *)
(***************************************************************************)
EXTENDS Integers, Sequences, FiniteSets

(***************************************************************************)
(* Bounds.  The script injects 1000 items; the model injects NumItems.     *)
(***************************************************************************)
NumItems == 2

\* Worker.run polls for ever; the model lets a worker find its input queue
\* empty at most MaxPolls times (polls that find an item are never held back).
MaxPolls == 2

\* item_38 sets how_many = 10**5; the model lets every worker increment
\* HowMany times.
HowMany == 1

(***************************************************************************)
(* Values that travel through the queues.  The i-th object() instance is   *)
(* object(i); None is what download, resize and upload return.             *)
(***************************************************************************)
object(i) == <<"object", i>>
None == <<"None">>
SENTINEL == <<"SENTINEL">>

\* item_39:93-108: the three phase functions have an empty body (pass).
download(item) == None
resize(item) == None
upload(item) == None

(***************************************************************************)
(* queue.Queue as the script uses it: a FIFO of pending items, the count   *)
(* of unfinished tasks and the buffer size (0: no limit).                  *)
(***************************************************************************)
Queue(maxsize) == [items |-> <<>>, unfinished |-> 0, maxsize |-> maxsize]

\* ClosableQueue() is constructed without a buffer size (item_39:323-326).
ClosableQueue == Queue(0)

\* put blocks while the queue is full; a buffer size of 0 never fills.
\* (NeverFull is the faulty variant: a put that ignores the buffer size.)
NeverFull(q) == FALSE
Full(q) == q.maxsize > 0 /\ Len(q.items) >= q.maxsize

\* get blocks until an item is available.
Empty(q) == Len(q.items) = 0

put(q, item) == [q EXCEPT !.items = Append(@, item), !.unfinished = @ + 1]

get(q) == [q EXCEPT !.items = Tail(@)]

task_done(q) == [q EXCEPT !.unfinished = @ - 1]

\* join blocks until every item that was put has been acknowledged.
\* (NeverWaits is the faulty variant: a join that returns at once.)
NeverWaits(q) == TRUE
Joinable(q) == q.unfinished = 0

qsize(q) == Len(q.items)

\* ClosableQueue.close
close(q) == put(q, SENTINEL)

\* Thread.join returns once the thread has run to its end.
\* (NeverAlive is the faulty variant: a join that does not wait.)
NeverAlive(pc) == TRUE
Joined(pc) == pc = "exited"

(***************************************************************************)
(* item_40_consider_coroutines.py: the Game of Life written as coroutines. *)
(* A cell is ALIVE or EMPTY; the coroutines yield Query and Transition     *)
(* tuples and the TICK object.  Every value is a tuple whose first         *)
(* component tells what it is.                                             *)
(***************************************************************************)
\* The model plays the game on a grid of GridHeight rows and GridWidth
\* columns (the script builds Grid(5, 9)).
GridHeight == 2
GridWidth == 2

ALIVE == <<"*">>
EMPTY == <<"-">>
Query(y, x) == <<"Query", y, x>>
Transition(y, x, state) == <<"Transition", y, x, state>>
TICK == <<"TICK">>
False == <<"False">>
True == <<"True">>

isinstance(item, cls) == item[1] = cls

\* not v: an object() and a namedtuple are true, None and False are not.
Not(v) == IF v \in {None, False} THEN True ELSE False

\* count_neighbors(y, x), lines 145-152: the eight Queries it yields, in
\* the order n_, ne, e_, se, s_, sw, w_, nw.
Neighbors(y, x) ==
    << Query(y + 1, x), Query(y + 1, x + 1), Query(y, x + 1),
       Query(y - 1, x + 1), Query(y - 1, x), Query(y - 1, x - 1),
       Query(y, x - 1), Query(y + 1, x - 1) >>

\* count_neighbors, lines 153-159: the loop over neighbor_states.
\* (CountsReplies is the faulty variant: it counts every reply.)
CountsReplies(neighbor_states) == Len(neighbor_states)
RECURSIVE CountAlive(_)
CountAlive(neighbor_states) ==
    IF neighbor_states = <<>> THEN 0
    ELSE LET count == CountAlive(SubSeq(neighbor_states, 1, Len(neighbor_states) - 1))
             state == neighbor_states[Len(neighbor_states)]
         IN  IF state = ALIVE THEN count + 1 ELSE count

\* (DiesOfThree is the faulty variant: a living cell with three living
\* neighbours dies as well.)
DiesOfThree(state, neighbors) ==
    IF state = ALIVE
    THEN IF neighbors < 2 THEN EMPTY
         ELSE IF neighbors >= 3 THEN EMPTY
         ELSE state
    ELSE IF neighbors = 3 THEN ALIVE
         ELSE state
game_logic(state, neighbors) ==
    IF state = ALIVE
    THEN IF neighbors < 2 THEN EMPTY
         ELSE IF neighbors > 3 THEN EMPTY
         ELSE state
    ELSE IF neighbors = 3 THEN ALIVE
         ELSE state

\* The generator object simulate(height, width) before its first next().
\* pc tells at which yield the generator is suspended: "query" at line 235,
\* "neighbors" inside count_neighbors, "transition" at line 238, "tick" at
\* line 295.  y and x are the loop variables of simulate, state and
\* neighbors the locals of the running step_cell, neighbor_states the
\* replies count_neighbors has got so far (n_, ne, ...), item what the
\* generator yielded last.
simulate(height, width) ==
    [height |-> height, width |-> width, pc |-> "new", y |-> 0, x |-> 0,
     state |-> None, neighbor_states |-> <<>>, neighbors |-> 0,
     item |-> None]

\* A call of step_cell(y, x) runs up to its first yield (line 235).
EnterCell(g, y, x) ==
    [g EXCEPT !.pc = "query", !.y = y, !.x = x, !.state = None,
              !.neighbor_states = <<>>, !.neighbors = 0,
              !.item = Query(y, x)]

\* The generator runs up to yield TICK (line 295).
Tick(g) ==
    [g EXCEPT !.pc = "tick", !.state = None, !.neighbor_states = <<>>,
              !.neighbors = 0, !.item = TICK]

\* simulate, lines 291-295: a generation starts (the while loop is entered
\* or has come round).
FirstCell(g) ==
    IF g.height > 0 /\ g.width > 0 THEN EnterCell(g, 0, 0) ELSE Tick(g)

\* simulate, lines 292-295: step_cell(y, x) has returned; the for loops go
\* on to the next coordinate, or are over.
\* (ColumnsFirst is the faulty variant: x is the outer loop.)
ColumnsFirst(g) ==
    IF g.y + 1 < g.height THEN EnterCell(g, g.y + 1, g.x)
    ELSE IF g.x + 1 < g.width THEN EnterCell(g, 0, g.x + 1)
    ELSE Tick(g)
NextCell(g) ==
    IF g.x + 1 < g.width THEN EnterCell(g, g.y, g.x + 1)
    ELSE IF g.y + 1 < g.height THEN EnterCell(g, g.y + 1, 0)
    ELSE Tick(g)

\* step_cell, lines 235-238, resumed with value at a yield of its own or of
\* the count_neighbors it delegates to.
\* (ForgetsState is the faulty variant: the reply to the first Query is
\* not kept, the cell counts as EMPTY.)
ForgetsState(g, value) ==
    IF g.pc = "query"
    THEN [g EXCEPT !.pc = "neighbors", !.state = EMPTY,
                   !.item = Neighbors(g.y, g.x)[1]]
    ELSE LET neighbor_states == Append(g.neighbor_states, value)
         IN  IF Len(neighbor_states) < 8
             THEN [g EXCEPT !.neighbor_states = neighbor_states,
                            !.item = Neighbors(g.y, g.x)[Len(neighbor_states) + 1]]
             ELSE LET neighbors == CountAlive(neighbor_states)
                      next_state == game_logic(g.state, neighbors)
                  IN  [g EXCEPT !.pc = "transition",
                                !.neighbor_states = neighbor_states,
                                !.neighbors = neighbors,
                                !.item = Transition(g.y, g.x, next_state)]
step_cell(g, value) ==
    IF g.pc = "query"
    THEN [g EXCEPT !.pc = "neighbors", !.state = value,
                   !.item = Neighbors(g.y, g.x)[1]]
    ELSE LET neighbor_states == Append(g.neighbor_states, value)
         IN  IF Len(neighbor_states) < 8
             THEN [g EXCEPT !.neighbor_states = neighbor_states,
                            !.item = Neighbors(g.y, g.x)[Len(neighbor_states) + 1]]
             ELSE LET neighbors == CountAlive(neighbor_states)
                      next_state == game_logic(g.state, neighbors)
                  IN  [g EXCEPT !.pc = "transition",
                                !.neighbor_states = neighbor_states,
                                !.neighbors = neighbors,
                                !.item = Transition(g.y, g.x, next_state)]

\* sim.send(value); next(sim) is send(sim, None).
send(g, value) ==
    CASE g.pc \in {"new", "tick"} -> FirstCell(g)
      [] g.pc \in {"query", "neighbors"} -> step_cell(g, value)
      [] g.pc = "transition" -> NextCell(g)

\* class Grid, lines 318-344; row y and column x are rows[y + 1][x + 1].
Grid(height, width) ==
    [height |-> height, width |-> width,
     rows |-> [y \in 1..height |-> [x \in 1..width |-> EMPTY]]]

query(grid, y, x) == grid.rows[(y % grid.height) + 1][(x % grid.width) + 1]

assign(grid, y, x, state) ==
    [grid EXCEPT !.rows[(y % grid.height) + 1][(x % grid.width) + 1] = state]

\* Grid.__str__: the cells of every row, and a newline after each row.
RECURSIVE Str(_, _)
Str(grid, n) ==
    IF n = 0 THEN ""
    ELSE Str(grid, n - 1) \o
         query(grid, (n - 1) \div grid.width, (n - 1) % grid.width)[1] \o
         (IF n % grid.width = 0 THEN "\n" ELSE "")

(***************************************************************************)
(* item_13_try_except_else_finally.py: divide_json.  A file is the         *)
(* sequence of the lexical tokens of its text (" " is white space); JSON   *)
(* values are tagged tuples.                                               *)
(***************************************************************************)
\* The numbers in the files the model reads are 0..MaxNumber.
MaxNumber == 2

JInt(n) == <<"int", n>>
\* The floats of the model are the multiples of one half: JFloat(h) is h / 2.
JFloat(h) == <<"float", h>>
JStr(s) == <<"str", s>>
Dict(pairs) == <<"dict", pairs>>
UNDEFINED == <<"UNDEFINED">>

\* How a call ends, and how a step of it ends.
Return(v) == <<"return", v>>
Raise(e) == <<"raise", e>>
Raised(r) == r[1] = "raise"

Digit == <<"0", "1", "2", "3", "4", "5", "6", "7", "8", "9">>
RECURSIVE ToString(_)
ToString(n) ==
    IF n < 10 THEN Digit[n + 1]
    ELSE ToString(n \div 10) \o Digit[(n % 10) + 1]

Quoted(s) == "\"" \o s \o "\""

\* The text json.dumps gives a number or a string.
Repr(v) ==
    CASE v[1] = "int" -> ToString(v[2])
      [] v[1] = "float" ->
           ToString(v[2] \div 2) \o (IF v[2] % 2 = 0 THEN ".0" ELSE ".5")
      [] v[1] = "str" -> Quoted(v[2])

\* The strings and numbers that occur in the files of the model.
Names == {"numerator", "denominator", "result", "a"}
Scalars ==
    {JInt(n) : n \in 0..MaxNumber} \cup {JFloat(h) : h \in 0..(2 * MaxNumber)}
        \cup {JStr(s) : s \in Names}

\* json.loads on one token: the value whose text the token is.
IsScalar(token) == \E v \in Scalars : Repr(v) = token
Scalar(token) == CHOOSE v \in Scalars : Repr(v) = token
IsString(token) == \E s \in Names : Quoted(s) = token

\* json.loads(data), line 81: white space is skipped; the text of a scalar
\* gives the scalar, "{" key ":" value "," ... "}" gives a dict, anything
\* else raises ValueError.
IsNotSpace(token) == token # " "
IsMembers(t) ==
    /\ Len(t) % 4 = 3
    /\ \A i \in 1..Len(t) :
         CASE i % 4 = 1 -> IsString(t[i])
           [] i % 4 = 2 -> t[i] = ":"
           [] i % 4 = 3 -> IsScalar(t[i])
           [] OTHER -> t[i] = ","
Members(t) == [k \in 1..((Len(t) + 1) \div 4) |-> <<Scalar(t[4 * k - 3])[2], Scalar(t[4 * k - 1])>>]
loads(data) ==
    LET t == SelectSeq(data, IsNotSpace)
    IN  IF Len(t) = 1 /\ IsScalar(t[1]) THEN Return(Scalar(t[1]))
        ELSE IF Len(t) >= 2 /\ t[1] = "{" /\ t[Len(t)] = "}"
                /\ (Len(t) = 2 \/ IsMembers(SubSeq(t, 2, Len(t) - 1)))
        THEN Return(Dict(IF Len(t) = 2 THEN <<>> ELSE Members(SubSeq(t, 2, Len(t) - 1))))
        ELSE Raise("ValueError")

\* json.dumps(op), line 88, with the separators ", " and ": ".
RECURSIVE DumpMembers(_)
DumpMembers(pairs) ==
    IF pairs = <<>> THEN <<>>
    ELSE LET last == pairs[Len(pairs)]
             front == SubSeq(pairs, 1, Len(pairs) - 1)
         IN  (IF front = <<>> THEN <<>> ELSE DumpMembers(front) \o <<",", " ">>)
                 \o <<Quoted(last[1]), ":", " ", Repr(last[2])>>
dumps(op) ==
    IF op[1] = "dict" THEN <<"{">> \o DumpMembers(op[2]) \o <<"}">>
    ELSE <<Repr(op)>>

\* op[key]: TypeError unless op is a dict, KeyError unless it has the key.
HasKey(op, key) == \E i \in 1..Len(op[2]) : op[2][i][1] = key
getitem(op, key) ==
    IF op[1] # "dict" THEN Raise("TypeError")
    ELSE IF ~HasKey(op, key) THEN Raise("KeyError")
    ELSE Return(op[2][CHOOSE i \in 1..Len(op[2]) :
                        op[2][i][1] = key /\ \A j \in (i + 1)..Len(op[2]) : op[2][j][1] # key][2])

\* op[key] = v, line 87: in place if op has the key, as a new last member
\* otherwise.
setitem(op, key, v) ==
    IF HasKey(op, key)
    THEN Dict([i \in 1..Len(op[2]) |-> IF op[2][i][1] = key THEN <<key, v>> ELSE op[2][i]])
    ELSE Dict(Append(op[2], <<key, v>>))

\* a / b, lines 82-83: TypeError unless both are numbers, ZeroDivisionError
\* if b is zero, their quotient as a float otherwise.
IsNumber(v) == v[1] \in {"int", "float"}
Halves(v) == IF v[1] = "int" THEN 2 * v[2] ELSE v[2]
truediv(a, b) ==
    IF ~(IsNumber(a) /\ IsNumber(b)) THEN Raise("TypeError")
    ELSE IF Halves(b) = 0 THEN Raise("ZeroDivisionError")
    ELSE Return(JFloat((2 * Halves(a)) \div Halves(b)))

\* op['numerator'] / op['denominator'], lines 82-83.
Divide(op) ==
    LET numerator == getitem(op, "numerator")
        denominator == getitem(op, "denominator")
    IN  IF Raised(numerator) THEN numerator
        ELSE IF Raised(denominator) THEN denominator
        ELSE truediv(numerator[2], denominator[2])

\* handle.read(), line 80: the text cannot be decoded if it holds a byte
\* that is not UTF-8.
Undecodable(text) == \E i \in 1..Len(text) : text[i] = "\\xff"

\* handle.seek(0); handle.write(result), lines 89-90: the text of the file
\* is overwritten from its start, what lies beyond result stays.
Overwrite(text, result) ==
    result \o SubSeq(text, Len(result) + 1, Len(text))

\* open(path, 'r+') gives an open handle; handle.close() closes it.
\* (StaysOpen is the faulty variant: a close that does nothing.)
Open == <<"handle", "open">>
StaysOpen(handle) == handle
Close(handle) == <<handle[1], "closed">>
Closed(handle) == handle[2] = "closed"

(***************************************************************************)
(* item_24_use_classmethod.py: the MapReduce glue.  An object is a tuple   *)
(* of its class and its attributes; a class is named by its name and the   *)
(* line of its class statement, because the script defines PathInputData   *)
(* and LineCountWorker twice.                                              *)
(***************************************************************************)
\* The model lists directories of up to MaxFiles files.
MaxFiles == 2

\* The texts of the files: sequences of characters.
Texts == {<<>>, <<"\n">>, <<"a", "\n", "b">>, <<"\n", "a", "\n">>}

\* data.count('\n'), lines 67 and 235
RECURSIVE count(_, _)
count(data, sub) ==
    IF data = <<>> THEN 0
    ELSE (IF Head(data) = sub THEN 1 ELSE 0) + count(Tail(data), sub)

\* How many arguments cls(...) takes: those of the __init__ the class has
\* or inherits.  Worker defines __init__(self, input_data) (lines 49-51);
\* PathInputData of line 30 defines __int__, the classes of lines 174-238
\* define none, so that object's __init__ without arguments is found.
InitArgs(cls) == IF cls = "LineCountWorker@64" THEN 1 ELSE 0

\* cls(arg): a new object with the attribute __init__ sets and result None,
\* or TypeError if __init__ takes no argument.
New(cls, arg) ==
    IF InitArgs(cls) = 1 THEN Return(<<cls, arg, None>>)
    ELSE Raise("TypeError")

\* The attributes of a worker: those set by __init__ and the methods of
\* its class.
Attributes(worker) == {"input_data", "result", "map", "reduce"}

\* getattr(worker, name): AttributeError unless the worker has it.
HasAttr(worker, name) == name \in Attributes(worker)

\* input_data.read(): the text of the file the object was made for.
read(input_data) == input_data[2]

\* LineCountWorker.map, lines 65-67
map(worker) == <<worker[1], worker[2], count(read(worker[2]), "\n")>>

\* LineCountWorker.reduce, lines 69-70: self.result += other.result;
\* None + None raises TypeError.
reduce(worker, other) ==
    IF worker[3] = None \/ other[3] = None THEN Raise("TypeError")
    ELSE Return(<<worker[1], worker[2], worker[3] + other[3]>>)

\* generate_inputs and create_workers, lines 80-93 and 194-219: one input
\* object and one worker per name in the directory, in order; the first
\* constructor that raises ends the loop.
RECURSIVE create_workers(_, _, _)
create_workers(worker_class, input_class, names) ==
    IF names = <<>> THEN Return(<<>>)
    ELSE LET front == create_workers(worker_class, input_class,
                                     SubSeq(names, 1, Len(names) - 1))
             input_data == New(input_class, names[Len(names)])
         IN  IF Raised(front) THEN front
             ELSE IF Raised(input_data) THEN input_data
             ELSE LET worker == New(worker_class, input_data[2])
                  IN  IF Raised(worker) THEN worker
                      ELSE Return(Append(front[2], worker[2]))

\* execute, lines 109-112: first.reduce(worker) for every worker of rest.
RECURSIVE ReduceAll(_, _)
ReduceAll(first, rest) ==
    IF rest = <<>> THEN Return(first)
    ELSE LET r == reduce(first, Head(rest))
         IN  IF Raised(r) THEN r ELSE ReduceAll(r[2], Tail(rest))

(***************************************************************************)
(* item_56_unittest.py: to_str.  A str is the sequence of its code points, *)
(* a bytes object the sequence of its octets.                              *)
(***************************************************************************)
\* The model calls to_str on strings and bytes objects of up to MaxBytes
\* elements.
MaxBytes == 3

str(chars) == <<"str", chars>>
bytes(octets) == <<"bytes", octets>>

\* A continuation byte of UTF-8: 10xxxxxx.
IsContinuation(octets, i) ==
    i <= Len(octets) /\ octets[i] >= 128 /\ octets[i] <= 191

\* octets.decode('utf-8'), line 48, in strict mode: the code points, or
\* UnicodeDecodeError at the first octet that starts no well-formed
\* sequence (a stray or missing continuation byte, an overlong form, a
\* surrogate, a code point beyond U+10FFFF).
\* (Latin1 is the faulty variant: every octet taken as one code point.)
Latin1(octets) == Return(octets)
RECURSIVE decode(_)
decode(octets) ==
    IF octets = <<>> THEN Return(<<>>)
    ELSE LET b == octets[1]
             size == CASE b < 128 -> 1
                       [] b >= 194 /\ b <= 223 -> 2
                       [] b >= 224 /\ b <= 239 -> 3
                       [] b >= 240 /\ b <= 244 -> 4
                       [] OTHER -> 0
             wellformed == /\ size > 0
                           /\ \A i \in 2..size : IsContinuation(octets, i)
             point == CASE size = 1 -> b
                        [] size = 2 -> (b - 192) * 64 + (octets[2] - 128)
                        [] size = 3 -> (b - 224) * 4096 + (octets[2] - 128) * 64
                                          + (octets[3] - 128)
                        [] OTHER -> (b - 240) * 262144 + (octets[2] - 128) * 4096
                                          + (octets[3] - 128) * 64 + (octets[4] - 128)
         IN  IF ~wellformed THEN Raise("UnicodeDecodeError")
             ELSE IF size = 3 /\ (point < 2048 \/ (point >= 55296 /\ point <= 57343))
             THEN Raise("UnicodeDecodeError")
             ELSE IF size = 4 /\ (point < 65536 \/ point > 1114111)
             THEN Raise("UnicodeDecodeError")
             ELSE LET rest == decode(SubSeq(octets, size + 1, Len(octets)))
                  IN  IF Raised(rest) THEN rest
                      ELSE Return(<<point>> \o rest[2])

\* to_str, lines 44-51
to_str(data) ==
    IF isinstance(data, "str") THEN Return(data)
    ELSE IF isinstance(data, "bytes")
    THEN LET chars == decode(data[2])
         IN  IF Raised(chars) THEN chars ELSE Return(str(chars[2]))
    ELSE Raise("TypeError")

(***************************************************************************)
(* State of the Queue part of item_39 (lines 176-357): the three demos     *)
(* and the ClosableQueue pipeline, which the main thread runs one after    *)
(* the other.                                                              *)
(***************************************************************************)
VARIABLES
    mpc,        \* where the main thread is in lines 180-356
    queue,      \* the Queue bound to the name queue (lines 180 and 211)
    in_queue,   \* the Queue bound to the name in_queue (line 248)
    cpc,        \* where the consumer thread of the running demo is
    out,        \* the lines printed so far
    cq,         \* the four ClosableQueue objects, by name
    swpc,       \* StoppableWorker -> where the thread is
    switem,     \* StoppableWorker -> the item its iterator last took
    pstarted,   \* how many workers main has started
    pinjected,  \* how many items main has put on download_queue
    finished    \* what line 356 printed (-1: nothing yet)

(***************************************************************************)
(* State of the polling pipeline of item_39 (lines 39-149).                *)
(***************************************************************************)
VARIABLES
    items,          \* MyQueue name -> MyQueue.items, the deque of pending items
    wpc,            \* Worker -> where the thread is in Worker.run
    witem,          \* Worker -> the item it last took
    polled_count,   \* Worker -> Worker.polled_count
    work_done,      \* Worker -> Worker.work_done
    kpc,            \* where the main thread is in lines 127-148
    kcount,         \* the loop variable of the main thread's current loop
    processed,      \* line 146 (-1: not assigned yet)
    polled          \* line 147: the sum so far

pollVars == <<items, wpc, witem, polled_count, work_done, kpc, kcount,
              processed, polled>>

(***************************************************************************)
(* State of item_38: the counter and the threads of run_threads.           *)
(***************************************************************************)
VARIABLES
    counter,    \* the object bound to the name counter (lines 68 and 140)
    tpc,        \* thread -> where it is in worker / increment
    ti,         \* thread -> how many rounds of the loop in worker are done
    tvalue,     \* thread -> the value it read: getattr(counter, 'count')
    tresult,    \* thread -> value + offset
    rpc,        \* where the main thread is
    rcount,     \* the loop variable of the current loop of run_threads
    locals,     \* value_a, value_b, result_a, result_b of lines 102-109
    report      \* the pairs (should be, found) printed so far

counterVars == <<counter, tpc, ti, tvalue, tresult, rpc, rcount, locals, report>>

demoState == <<queue, in_queue, cpc, out>>
pipeState == <<cq, swpc, switem, pstarted, pinjected, finished>>
queueVars == <<mpc, demoState, pipeState>>

(***************************************************************************)
(* State of item_40: the generator sim, what it has yielded and been sent, *)
(* and the script of lines 370-436 that plays five generations.            *)
(***************************************************************************)
VARIABLE life
    \* a record with the fields
    \*   sim           the generator object simulate(height, width)
    \*   cell_items    the items the running step_cell has yielded so far
    \*   cell_replies  the values the running step_cell has been sent so far
    \*   since_tick    (y, x) of the Transitions yielded since the last TICK
    \*   grid          the Grid bound to the name grid (lines 370 and 434)
    \*   progeny       live_a_generation: the Grid it builds
    \*   item          live_a_generation: the item it took from sim last
    \*   pc            where the script is in lines 431-436
    \*   generation    the loop variable i of line 432
    \*   colums        the strings appended to the ColumnPrinter so far

(***************************************************************************)
(* State of item_13: one call of divide_json(path).                        *)
(***************************************************************************)
VARIABLE divide
    \* a record with the fields
    \*   pc        where the call is in lines 78-93
    \*   file      the text of the file at path (None: there is no file)
    \*   given     the text of the file when divide_json was called
    \*   writes    the texts written through the handle so far
    \*   handle    handle (None: not opened)
    \*   data      data
    \*   op        op
    \*   value     value
    \*   pending   the return or raise the finally block lets through
    \*   outcome   how the call ended, once it has

(***************************************************************************)
(* State of item_24: one call of mapreduce or of execute.                  *)
(***************************************************************************)
VARIABLE mapreduce
    \* a record with the fields
    \*   pc        where the call is
    \*   call      the function called: mapreduce of line 119, mapreduce
    \*             of line 244, or execute
    \*   dir       the texts of the files of data_dir
    \*   workers   workers
    \*   threads   threads: the target of every thread
    \*   outcome   how the call ended, once it has

(***************************************************************************)
(* State of item_56: one call of to_str(data).                             *)
(***************************************************************************)
VARIABLE utils
    \* a record with the fields
    \*   pc        "call" before the call, "done" after it
    \*   data      data
    \*   outcome   what the call returned or raised

vars == <<queueVars, pollVars, counterVars, life, divide, mapreduce, utils>>

(***************************************************************************)
(* The objects the scripts construct and the state each script starts in.  *)
(***************************************************************************)
QueueNames == {"download_queue", "resize_queue", "upload_queue", "done_queue"}
Workers == 1..3

\* threads = [Worker(...), ...] and threads = [StoppableWorker(download, download_queue, resize_queue), ...]
in_queue_of(w) ==
    CASE w = 1 -> "download_queue" [] w = 2 -> "resize_queue" [] OTHER -> "upload_queue"
out_queue_of(w) ==
    CASE w = 1 -> "resize_queue" [] w = 2 -> "upload_queue" [] OTHER -> "done_queue"
func(w, item) ==
    CASE w = 1 -> download(item) [] w = 2 -> resize(item) [] OTHER -> upload(item)

NumThreads == 5
Threads == 1..NumThreads

\* Counter() and LockingCounter(); lock is 0 while no thread holds it.
Counter == [cls |-> "Counter", count |-> 0, lock |-> 0]
LockingCounter == [cls |-> "LockingCounter", count |-> 0, lock |-> 0]

QueueIdle ==
    /\ mpc = "A_start"
    /\ queue = Queue(0)
    /\ in_queue = Queue(0)
    /\ cpc = "new"
    /\ out = <<>>
    /\ cq = [n \in QueueNames |-> ClosableQueue]
    /\ swpc = [w \in Workers |-> "new"]
    /\ switem = [w \in Workers |-> None]
    /\ pstarted = 0
    /\ pinjected = 0
    /\ finished = -1

PollIdle ==
    /\ items = [n \in QueueNames |-> <<>>]
    /\ wpc = [w \in Workers |-> "new"]
    /\ witem = [w \in Workers |-> None]
    /\ polled_count = [w \in Workers |-> 0]
    /\ work_done = [w \in Workers |-> 0]
    /\ kpc = "start"
    /\ kcount = 0
    /\ processed = -1
    /\ polled = 0

CounterIdle ==
    /\ counter = Counter
    /\ tpc = [t \in Threads |-> "new"]
    /\ ti = [t \in Threads |-> 0]
    /\ tvalue = [t \in Threads |-> 0]
    /\ tresult = [t \in Threads |-> 0]
    /\ rpc = "start"
    /\ rcount = 0
    /\ locals = [value_a |-> 0, value_b |-> 0, result_a |-> 0, result_b |-> 0]
    /\ report = <<>>

\* A script that is not running has no state: each specification runs one
\* script, and the variables of the others hold Absent throughout.
Absent == <<>>
QueueAbsent ==
    /\ mpc = Absent /\ queue = Absent /\ in_queue = Absent /\ cpc = Absent
    /\ out = Absent /\ cq = Absent /\ swpc = Absent /\ switem = Absent
    /\ pstarted = Absent /\ pinjected = Absent /\ finished = Absent
PollAbsent ==
    /\ items = Absent /\ wpc = Absent /\ witem = Absent
    /\ polled_count = Absent /\ work_done = Absent /\ kpc = Absent
    /\ kcount = Absent /\ processed = Absent /\ polled = Absent
CounterAbsent ==
    /\ counter = Absent /\ tpc = Absent /\ ti = Absent /\ tvalue = Absent
    /\ tresult = Absent /\ rpc = Absent /\ rcount = Absent /\ locals = Absent
    /\ report = Absent

\* for i in range(5), line 432
Generations == 5

\* The grids that assign can make of Grid(height, width).
Grids(height, width) ==
    { [height |-> height, width |-> width, rows |-> rows] :
        rows \in [1..height -> [1..width -> {ALIVE, EMPTY}]] }

\* The names of the script of lines 431-436 when sim is advanced by
\* another caller: none of them is bound.
ScriptAbsent ==
    [grid |-> Absent, progeny |-> Absent, item |-> Absent, pc |-> Absent,
     generation |-> Absent, colums |-> Absent]

\* sim = simulate(height, width), not yet advanced, beside a script.
SimIdle(height, width, script) ==
    life = [sim |-> simulate(height, width),
            cell_items |-> <<>>,
            cell_replies |-> <<>>,
            since_tick |-> <<>>,
            grid |-> script.grid,
            progeny |-> script.progeny,
            item |-> script.item,
            pc |-> script.pc,
            generation |-> script.generation,
            colums |-> script.colums]

\* Line 431 has run: a grid has been set up, colums is empty, sim is new.
LifeIdle ==
    \E start \in Grids(GridHeight, GridWidth) :
        SimIdle(start.height, start.width,
                [grid |-> start, progeny |-> None, item |-> None,
                 pc |-> "loop", generation |-> 0, colums |-> <<>>])

LifeAbsent == life = Absent

\* The files divide_json is called on: a description of work with a
\* numerator n and a denominator d,
Denominators == {0, 1, 2}
Work(n, d) ==
    <<"{", Quoted("numerator"), ":", " ", ToString(n), ",", " ",
      Quoted("denominator"), ":", " ", ToString(d), "}">>
\* the same followed by white space, or holding a result key already,
Padded(n, d) == Work(n, d) \o <<" ", " ", " ", " ", " ", " ", " ", " ">>
Stale(n, d) ==
    <<"{", Quoted("result"), ":", " ", Quoted("a"), ",", " ",
      Quoted("numerator"), ":", " ", ToString(n), ",", " ",
      Quoted("denominator"), ":", " ", ToString(d), "}">>
\* and files that do not describe a division.
BadNumerator ==
    <<"{", Quoted("numerator"), ":", " ", Quoted("a"), ",", " ",
      Quoted("denominator"), ":", " ", "0", "}">>
NoNumerator == <<"{", Quoted("denominator"), ":", " ", "0", "}">>
NotADict == <<"1">>
NotJson == <<"{", Quoted("numerator")>>
NotText == <<"\\xff">>
Files ==
    {Work(n, d) : n \in 0..MaxNumber, d \in Denominators}
        \cup {Padded(1, 2), Stale(1, 2), BadNumerator, NoNumerator,
              NotADict, NotJson, NotText, None}

\* divide_json(path) is called.
JsonIdle ==
    \E text \in Files :
        divide = [pc |-> "open",
                  file |-> text,
                  given |-> text,
                  writes |-> <<>>,
                  handle |-> None,
                  data |-> None,
                  op |-> None,
                  value |-> None,
                  pending |-> None,
                  outcome |-> None]

JsonAbsent == divide = Absent

\* The directories: up to MaxFiles files, each with one of the texts.
Dirs == UNION {[1..n -> Texts] : n \in 0..MaxFiles}

\* An input object whose read() gives text, and a worker made for it, as a
\* caller of execute can build them.
Input(text) == <<"InputData", text, None>>
WorkersOf(dir) ==
    [i \in 1..Len(dir) |-> New("LineCountWorker@64", Input(dir[i]))[2]]

\* mapreduce(data_dir), mapreduce(LineCountWorker, PathInputData, config)
\* or execute(workers) is called.
MapReduceIdle ==
    \E function \in {"mapreduce@119", "mapreduce@244", "execute"},
       files \in Dirs :
        mapreduce =
            [pc |-> IF function = "execute" THEN "execute" ELSE "call",
             call |-> function,
             dir |-> files,
             workers |-> IF function = "execute" THEN WorkersOf(files)
                         ELSE None,
             threads |-> None,
             outcome |-> None]

MapReduceAbsent == mapreduce = Absent

\* The values to_str is called on: the strings and bytes objects over a
\* few code points and octets, 'hello' and b'hello' of the tests, and
\* values of other types.
Chars == {104, 233, 8364}
Octets == {104, 195, 169, 226, 130, 172, 255}
hello == <<104, 101, 108, 108, 111>>
Values ==
    {str(c) : c \in UNION {[1..n -> Chars] : n \in 0..MaxBytes}}
        \cup {bytes(o) : o \in UNION {[1..n -> Octets] : n \in 0..MaxBytes}}
        \cup {str(hello), bytes(hello), object(1), None, JInt(0)}

\* to_str(data) is called.
UtilsIdle ==
    \E given \in Values :
        utils = [pc |-> "call", data |-> given, outcome |-> None]

UtilsAbsent == utils = Absent

\* Every script but the one that runs.
NoQueue ==
    /\ PollAbsent /\ CounterAbsent /\ LifeAbsent
    /\ JsonAbsent /\ MapReduceAbsent /\ UtilsAbsent
NoPoll ==
    /\ QueueAbsent /\ CounterAbsent /\ LifeAbsent
    /\ JsonAbsent /\ MapReduceAbsent /\ UtilsAbsent
NoCounter ==
    /\ QueueAbsent /\ PollAbsent /\ LifeAbsent
    /\ JsonAbsent /\ MapReduceAbsent /\ UtilsAbsent
NoLife ==
    /\ QueueAbsent /\ PollAbsent /\ CounterAbsent
    /\ JsonAbsent /\ MapReduceAbsent /\ UtilsAbsent
NoJson ==
    /\ QueueAbsent /\ PollAbsent /\ CounterAbsent
    /\ LifeAbsent /\ MapReduceAbsent /\ UtilsAbsent
NoMapReduce ==
    /\ QueueAbsent /\ PollAbsent /\ CounterAbsent
    /\ LifeAbsent /\ JsonAbsent /\ UtilsAbsent
NoUtils ==
    /\ QueueAbsent /\ PollAbsent /\ CounterAbsent
    /\ LifeAbsent /\ JsonAbsent /\ MapReduceAbsent

\* What a step of one script leaves alone.
QueueOnly ==
    UNCHANGED <<pollVars, counterVars, life, divide, mapreduce, utils>>
PollOnly ==
    UNCHANGED <<queueVars, counterVars, life, divide, mapreduce, utils>>
CounterOnly ==
    UNCHANGED <<queueVars, pollVars, life, divide, mapreduce, utils>>
LifeOnly ==
    UNCHANGED <<queueVars, pollVars, counterVars, divide, mapreduce, utils>>
JsonOnly ==
    UNCHANGED <<queueVars, pollVars, counterVars, life, mapreduce, utils>>
MapReduceOnly ==
    UNCHANGED <<queueVars, pollVars, counterVars, life, divide, utils>>
UtilsOnly ==
    UNCHANGED <<queueVars, pollVars, counterVars, life, divide, mapreduce>>

(***************************************************************************)
(* item_38: Counter, LockingCounter, worker and run_threads.               *)
(***************************************************************************)
\* Lock.acquire at the head of "with self.lock:" blocks while the lock is held.
\* (AlwaysFree is the faulty variant: a lock that excludes nobody.)
AlwaysFree(c) == TRUE
Free(c) == c.lock = 0

\* result = value + offset
\* (AddsTwice is the faulty variant: the offset is applied twice.)
AddsTwice(value, offset) == value + offset + offset
Add(value, offset) == value + offset

\* for _ in range(how_many): where a thread that has done i rounds goes next
Round(i) ==
    IF i < HowMany
    THEN IF counter.cls = "LockingCounter" THEN "acquire" ELSE "read"
    ELSE "exited"

\* run_threads: thread = Thread(target=func, args=args); thread.start();
\* the new thread starts worker with fresh locals
RStart ==
    /\ rpc = "start"
    /\ tpc' = [tpc EXCEPT ![rcount + 1] = Round(0)]
    /\ ti' = [ti EXCEPT ![rcount + 1] = 0]
    /\ tvalue' = [tvalue EXCEPT ![rcount + 1] = 0]
    /\ tresult' = [tresult EXCEPT ![rcount + 1] = 0]
    /\ rcount' = IF rcount + 1 = NumThreads THEN 0 ELSE rcount + 1
    /\ rpc' = IF rcount + 1 = NumThreads THEN "join" ELSE "start"
    /\ UNCHANGED <<counter, locals, report>>
    /\ CounterOnly

\* run_threads: for thread in threads: thread.join()
RJoin ==
    /\ rpc = "join"
    /\ Joined(tpc[rcount + 1])
    /\ rcount' = IF rcount + 1 = NumThreads THEN 0 ELSE rcount + 1
    /\ rpc' = IF rcount + 1 = NumThreads THEN "print" ELSE "join"
    /\ UNCHANGED <<counter, tpc, ti, tvalue, tresult, locals, report>>
    /\ CounterOnly

\* print('Counter should be %d, found %d' % (5 * how_many, counter.count))
RPrint ==
    /\ rpc = "print"
    /\ report' = Append(report, <<5 * HowMany, counter.count>>)
    /\ rpc' = IF counter.cls = "Counter" THEN "value_a" ELSE "done"
    /\ UNCHANGED <<counter, tpc, ti, tvalue, tresult, rcount, locals>>
    /\ CounterOnly

\* lines 102 and 104: value_x = getattr(counter, 'count')
RGetattr(at, name, next) ==
    /\ rpc = at
    /\ locals' = [locals EXCEPT ![name] = counter.count]
    /\ rpc' = next
    /\ UNCHANGED <<counter, tpc, ti, tvalue, tresult, rcount, report>>
    /\ CounterOnly

\* lines 105 and 108: result_x = value_x + 1
RAdd(at, value, name, next) ==
    /\ rpc = at
    /\ locals' = [locals EXCEPT ![name] = Add(locals[value], 1)]
    /\ rpc' = next
    /\ UNCHANGED <<counter, tpc, ti, tvalue, tresult, rcount, report>>
    /\ CounterOnly

\* lines 106 and 109: setattr(counter, 'count', result_x)
RSetattr(at, name, next) ==
    /\ rpc = at
    /\ counter' = [counter EXCEPT !.count = locals[name]]
    /\ rpc' = next
    /\ UNCHANGED <<tpc, ti, tvalue, tresult, rcount, locals, report>>
    /\ CounterOnly

\* counter = LockingCounter(); run_threads(worker, how_many, counter)
RNewCounter ==
    /\ rpc = "new_counter"
    /\ counter' = LockingCounter
    /\ rpc' = "start"
    /\ UNCHANGED <<tpc, ti, tvalue, tresult, rcount, locals, report>>
    /\ CounterOnly

\* LockingCounter.increment: with self.lock: (enter)
TAcquire(t) ==
    /\ tpc[t] = "acquire"
    /\ Free(counter)
    /\ counter' = [counter EXCEPT !.lock = t]
    /\ tpc' = [tpc EXCEPT ![t] = "read"]
    /\ UNCHANGED <<ti, tvalue, tresult, rpc, rcount, locals, report>>
    /\ CounterOnly

\* self.count += offset, first step: value = getattr(counter, 'count')
TRead(t) ==
    /\ tpc[t] = "read"
    /\ tvalue' = [tvalue EXCEPT ![t] = counter.count]
    /\ tpc' = [tpc EXCEPT ![t] = "add"]
    /\ UNCHANGED <<counter, ti, tresult, rpc, rcount, locals, report>>
    /\ CounterOnly

\* self.count += offset, second step: result = value + offset (offset is 1)
TAdd(t) ==
    /\ tpc[t] = "add"
    /\ tresult' = [tresult EXCEPT ![t] = Add(tvalue[t], 1)]
    /\ tpc' = [tpc EXCEPT ![t] = "write"]
    /\ UNCHANGED <<counter, ti, tvalue, rpc, rcount, locals, report>>
    /\ CounterOnly

\* self.count += offset, third step: setattr(counter, 'count', result); the
\* temporaries value and result are gone after it.  In Counter this ends the
\* round
TWrite(t) ==
    /\ tpc[t] = "write"
    /\ counter' = [counter EXCEPT !.count = tresult[t]]
    /\ tvalue' = [tvalue EXCEPT ![t] = 0]
    /\ tresult' = [tresult EXCEPT ![t] = 0]
    /\ ti' = [ti EXCEPT ![t] = IF counter.cls = "Counter" THEN @ + 1 ELSE @]
    /\ tpc' = [tpc EXCEPT
                 ![t] = IF counter.cls = "Counter" THEN Round(ti[t] + 1) ELSE "release"]
    /\ UNCHANGED <<rpc, rcount, locals, report>>
    /\ CounterOnly

\* LockingCounter.increment: with self.lock: (leave), which ends the round
TRelease(t) ==
    /\ tpc[t] = "release"
    /\ counter' = [counter EXCEPT !.lock = 0]
    /\ ti' = [ti EXCEPT ![t] = @ + 1]
    /\ tpc' = [tpc EXCEPT ![t] = Round(ti[t] + 1)]
    /\ UNCHANGED <<tvalue, tresult, rpc, rcount, locals, report>>
    /\ CounterOnly

RMain ==
    \/ RStart
    \/ RJoin
    \/ RPrint
    \/ RGetattr("value_a", "value_a", "value_b")
    \/ RGetattr("value_b", "value_b", "result_b")
    \/ RAdd("result_b", "value_b", "result_b", "set_b")
    \/ RSetattr("set_b", "result_b", "result_a")
    \/ RAdd("result_a", "value_a", "result_a", "set_a")
    \/ RSetattr("set_a", "result_a", "new_counter")
    \/ RNewCounter

TStep(t) ==
    \/ TAcquire(t)
    \/ TRead(t)
    \/ TAdd(t)
    \/ TWrite(t)
    \/ TRelease(t)

InitCounter == CounterIdle /\ NoCounter

NextCounter ==
    \/ RMain
    \/ \E t \in Threads : TStep(t)

SpecCounter == InitCounter /\ [][NextCounter]_vars

\* The values line 70 can print as found: no increment is lost at best, and
\* at worst all but one (how_many = 1) or all but two are.
FoundRange == (IF HowMany = 1 THEN 1 ELSE 2)..(NumThreads * HowMany)

\* The script at line 140, when the Counter run and lines 102-109 are over:
\* line 70 has printed a value f of FoundRange and lines 102-109 have left
\* f + 1 in the old counter.
AtLine140(f) ==
    /\ counter = [Counter EXCEPT !.count = f + 1]
    /\ tpc = [t \in Threads |-> "exited"]
    /\ ti = [t \in Threads |-> HowMany]
    /\ tvalue = [t \in Threads |-> 0]
    /\ tresult = [t \in Threads |-> 0]
    /\ rpc = "new_counter"
    /\ rcount = 0
    /\ locals = [value_a |-> f, value_b |-> f, result_a |-> f + 1, result_b |-> f + 1]
    /\ report = <<<<NumThreads * HowMany, f>>>>

InitLockingCounter ==
    /\ \E f \in FoundRange : AtLine140(f)
    /\ NoCounter

NextLockingCounter ==
    \/ RNewCounter
    \/ RStart
    \/ RJoin
    \/ RPrint
    \/ \E t \in Threads : TStep(t)

\* The LockingCounter run (item_38:140-142).
SpecLockingCounter == InitLockingCounter /\ [][NextLockingCounter]_vars

(***************************************************************************)
(* The polling pipeline (item_39:39-149).                                  *)
(***************************************************************************)
\* MyQueue.put: with self.lock: self.items.append(item)
\* (LosesItem is the faulty variant: the item is not appended.)
LosesItem(q, item) == q
MyQueue_put(q, item) == Append(q, item)

\* MyQueue.get: with self.lock: return self.items.popleft(); popleft raises
\* IndexError on an empty deque.
RaisesIndexError(q) == Len(q) = 0
MyQueue_get(q) == Tail(q)

\* for thread in threads: thread.start()
KStart ==
    /\ kpc = "start"
    /\ wpc' = [wpc EXCEPT ![kcount + 1] = "poll"]
    /\ kcount' = IF kcount + 1 = 3 THEN 0 ELSE kcount + 1
    /\ kpc' = IF kcount + 1 = 3 THEN "inject" ELSE "start"
    /\ UNCHANGED <<items, witem, polled_count, work_done, processed, polled>>
    /\ PollOnly

\* for _ in range(1000): download_queue.put(object())
KInject ==
    /\ kpc = "inject"
    /\ kcount < NumItems
    /\ items' = [items EXCEPT
                   !["download_queue"] = MyQueue_put(@, object(kcount + 1))]
    /\ kcount' = kcount + 1
    /\ UNCHANGED <<wpc, witem, polled_count, work_done, kpc, processed, polled>>
    /\ PollOnly

\* the loop of line 129 is exhausted
KInjected ==
    /\ kpc = "inject"
    /\ kcount = NumItems
    /\ kpc' = "wait"
    /\ UNCHANGED <<items, wpc, witem, polled_count, work_done, kcount,
                   processed, polled>>
    /\ PollOnly

\* while len(done_queue.items) < 1000: pass -- the loop is left
KWaitOver ==
    /\ kpc = "wait"
    /\ ~(Len(items["done_queue"]) < NumItems)
    /\ kpc' = "processed"
    /\ UNCHANGED <<items, wpc, witem, polled_count, work_done, kcount,
                   processed, polled>>
    /\ PollOnly

\* processed = len(done_queue.items)
KProcessed ==
    /\ kpc = "processed"
    /\ processed' = Len(items["done_queue"])
    /\ kcount' = 0
    /\ kpc' = "polled"
    /\ UNCHANGED <<items, wpc, witem, polled_count, work_done, polled>>
    /\ PollOnly

\* polled = sum(t.polled_count for t in threads), one thread per step
KPolled ==
    /\ kpc = "polled"
    /\ polled' = polled + polled_count[kcount + 1]
    /\ kcount' = kcount + 1
    /\ kpc' = IF kcount + 1 = 3 THEN "done" ELSE "polled"
    /\ UNCHANGED <<items, wpc, witem, polled_count, work_done, processed>>
    /\ PollOnly

\* Worker.run: self.polled_count += 1
WPoll(w) ==
    /\ wpc[w] = "poll"
    /\ polled_count[w] - work_done[w] < MaxPolls \/ Len(items[in_queue_of(w)]) > 0
    /\ polled_count' = [polled_count EXCEPT ![w] = @ + 1]
    /\ wpc' = [wpc EXCEPT ![w] = "get"]
    /\ UNCHANGED <<items, witem, work_done, kpc, kcount, processed, polled>>
    /\ PollOnly

\* Worker.run: item = self.in_queue.get(), an item is there
WGet(w) ==
    /\ wpc[w] = "get"
    /\ ~RaisesIndexError(items[in_queue_of(w)])
    /\ witem' = [witem EXCEPT ![w] = Head(items[in_queue_of(w)])]
    /\ items' = [items EXCEPT ![in_queue_of(w)] = MyQueue_get(@)]
    /\ wpc' = [wpc EXCEPT ![w] = "put"]
    /\ UNCHANGED <<polled_count, work_done, kpc, kcount, processed, polled>>
    /\ PollOnly

\* Worker.run: item = self.in_queue.get() raises IndexError
WGetEmpty(w) ==
    /\ wpc[w] = "get"
    /\ RaisesIndexError(items[in_queue_of(w)])
    /\ wpc' = [wpc EXCEPT ![w] = "sleep"]
    /\ UNCHANGED <<items, witem, polled_count, work_done, kpc, kcount,
                   processed, polled>>
    /\ PollOnly

\* Worker.run: except IndexError: sleep(0.01), then the next round
WSleep(w) ==
    /\ wpc[w] = "sleep"
    /\ wpc' = [wpc EXCEPT ![w] = "poll"]
    /\ UNCHANGED <<items, witem, polled_count, work_done, kpc, kcount,
                   processed, polled>>
    /\ PollOnly

\* Worker.run: result = self.func(item); self.out_queue.put(result)
WPut(w) ==
    /\ wpc[w] = "put"
    /\ items' = [items EXCEPT
                   ![out_queue_of(w)] = MyQueue_put(@, func(w, witem[w]))]
    /\ wpc' = [wpc EXCEPT ![w] = "count"]
    /\ UNCHANGED <<witem, polled_count, work_done, kpc, kcount, processed, polled>>
    /\ PollOnly

\* Worker.run: self.work_done += 1, then the next round
WCount(w) ==
    /\ wpc[w] = "count"
    /\ work_done' = [work_done EXCEPT ![w] = @ + 1]
    /\ wpc' = [wpc EXCEPT ![w] = "poll"]
    /\ UNCHANGED <<items, witem, polled_count, kpc, kcount, processed, polled>>
    /\ PollOnly

KMain ==
    \/ KStart
    \/ KInject
    \/ KInjected
    \/ KWaitOver
    \/ KProcessed
    \/ KPolled

WStep(w) ==
    \/ WPoll(w)
    \/ WGet(w)
    \/ WGetEmpty(w)
    \/ WSleep(w)
    \/ WPut(w)
    \/ WCount(w)

InitPolling == PollIdle /\ NoPoll

NextPolling ==
    \/ KMain
    \/ \E w \in Workers : WStep(w)

SpecPolling == InitPolling /\ [][NextPolling]_vars

FairSpecPolling ==
    /\ SpecPolling
    /\ WF_vars(KMain)
    /\ \A w \in Workers : WF_vars(WStep(w))

(***************************************************************************)
(* Steps shared by the three demos (item_39:176-275).                      *)
(***************************************************************************)
\* print(line) in the main thread
MPrint(at, line, next) ==
    /\ mpc = at
    /\ out' = Append(out, line)
    /\ mpc' = next
    /\ UNCHANGED <<queue, in_queue, cpc, pipeState>>
    /\ QueueOnly

\* queue.put(object()) in the main thread
MPut(at, next) ==
    /\ mpc = at
    /\ ~Full(queue)
    /\ queue' = put(queue, object(1))
    /\ mpc' = next
    /\ UNCHANGED <<in_queue, cpc, out, pipeState>>
    /\ QueueOnly

\* thread.join() in the main thread
MJoinThread(at, next) ==
    /\ mpc = at
    /\ Joined(cpc)
    /\ mpc' = next
    /\ UNCHANGED <<demoState, pipeState>>
    /\ QueueOnly

\* print(line) in the consumer thread
CPrint(at, line, next) ==
    /\ cpc = at
    /\ out' = Append(out, line)
    /\ cpc' = next
    /\ UNCHANGED <<mpc, queue, in_queue, pipeState>>
    /\ QueueOnly

\* queue.get() in the consumer thread
CGet(at, next) ==
    /\ cpc = at
    /\ ~Empty(queue)
    /\ queue' = get(queue)
    /\ cpc' = next
    /\ UNCHANGED <<mpc, in_queue, out, pipeState>>
    /\ QueueOnly

(***************************************************************************)
(* The blocking get demo (item_39:180-198).                                *)
(***************************************************************************)
\* thread = Thread(target=consumer); thread.start()
AStart ==
    /\ mpc = "A_start"
    /\ cpc' = "A_waiting"
    /\ mpc' = "A_putting"
    /\ UNCHANGED <<queue, in_queue, out, pipeState>>
    /\ QueueOnly

AMain ==
    \/ AStart
    \/ MPrint("A_putting", "Producer putting", "A_put")
    \/ MPut("A_put", "A_join")
    \/ MJoinThread("A_join", "A_done")
    \/ MPrint("A_done", "Producer done", "B_start")

AConsumer ==
    \/ CPrint("A_waiting", "Consumer waiting", "A_get")
    \/ CGet("A_get", "A_done")
    \/ CPrint("A_done", "Consumer done", "exited")

(***************************************************************************)
(* The buffer size demo (item_39:211-235).                                 *)
(***************************************************************************)
BufferSize == 1

\* queue = Queue(1); thread = Thread(target=consumer); thread.start()
BStart ==
    /\ mpc = "B_start"
    /\ queue' = Queue(BufferSize)
    /\ cpc' = "B_sleep"
    /\ mpc' = "B_put1"
    /\ UNCHANGED <<in_queue, out, pipeState>>
    /\ QueueOnly

\* time.sleep(0.1)
BSleep ==
    /\ cpc = "B_sleep"
    /\ cpc' = "B_get1"
    /\ UNCHANGED <<mpc, queue, in_queue, out, pipeState>>
    /\ QueueOnly

BMain ==
    \/ BStart
    \/ MPut("B_put1", "B_print1")
    \/ MPrint("B_print1", "Producer put 1", "B_put2")
    \/ MPut("B_put2", "B_print2")
    \/ MPrint("B_print2", "Producer put 2", "B_join")
    \/ MJoinThread("B_join", "B_done")
    \/ MPrint("B_done", "Producer done", "C_start")

BConsumer ==
    \/ BSleep
    \/ CGet("B_get1", "B_got1")
    \/ CPrint("B_got1", "Consumer got 1", "B_get2")
    \/ CGet("B_get2", "B_got2")
    \/ CPrint("B_got2", "Consumer got 2", "exited")

(***************************************************************************)
(* The task_done demo (item_39:248-270).                                   *)
(***************************************************************************)
\* in_queue = Queue(); Thread(target=consumer).start()
CStart ==
    /\ mpc = "C_start"
    /\ in_queue' = Queue(0)
    /\ cpc' = "C_waiting"
    /\ mpc' = "C_put"
    /\ UNCHANGED <<queue, out, pipeState>>
    /\ QueueOnly

\* in_queue.put(object())
CPut ==
    /\ mpc = "C_put"
    /\ ~Full(in_queue)
    /\ in_queue' = put(in_queue, object(1))
    /\ mpc' = "C_print_waiting"
    /\ UNCHANGED <<queue, cpc, out, pipeState>>
    /\ QueueOnly

\* in_queue.join()
CJoin ==
    /\ mpc = "C_join"
    /\ Joinable(in_queue)
    /\ mpc' = "C_done"
    /\ UNCHANGED <<demoState, pipeState>>
    /\ QueueOnly

\* work = in_queue.get()
CGetWork ==
    /\ cpc = "C_get"
    /\ ~Empty(in_queue)
    /\ in_queue' = get(in_queue)
    /\ cpc' = "C_working"
    /\ UNCHANGED <<mpc, queue, out, pipeState>>
    /\ QueueOnly

\* in_queue.task_done(), the last statement of consumer
CTaskDone ==
    /\ cpc = "C_task_done"
    /\ in_queue' = task_done(in_queue)
    /\ cpc' = "exited"
    /\ UNCHANGED <<mpc, queue, out, pipeState>>
    /\ QueueOnly

CMain ==
    \/ CStart
    \/ CPut
    \/ MPrint("C_print_waiting", "Producer waiting", "C_join")
    \/ CJoin
    \/ MPrint("C_done", "Producer done", "start")

CConsumer ==
    \/ CPrint("C_waiting", "Consumer waiting", "C_get")
    \/ CGetWork
    \/ CPrint("C_working", "Consumer working", "C_done")
    \/ CPrint("C_done", "Consumer done", "C_task_done")
    \/ CTaskDone

(***************************************************************************)
(* The ClosableQueue pipeline (item_39:283-356).                           *)
(***************************************************************************)

\* for thread in threads: thread.start()
PStart ==
    /\ mpc = "start"
    /\ pstarted < 3
    /\ pstarted' = pstarted + 1
    /\ swpc' = [swpc EXCEPT ![pstarted + 1] = "get"]
    /\ mpc' = IF pstarted + 1 = 3 THEN "inject" ELSE "start"
    /\ UNCHANGED <<cq, switem, pinjected, finished>>
    /\ UNCHANGED demoState
    /\ QueueOnly

\* for _ in range(1000): download_queue.put(object())
PInject ==
    /\ mpc = "inject"
    /\ pinjected < NumItems
    /\ ~Full(cq["download_queue"])
    /\ cq' = [cq EXCEPT !["download_queue"] = put(@, object(pinjected + 1))]
    /\ pinjected' = pinjected + 1
    /\ UNCHANGED <<swpc, switem, mpc, pstarted, finished>>
    /\ UNCHANGED demoState
    /\ QueueOnly

\* the loop of line 341 is exhausted; download_queue.close()
PCloseDownload ==
    /\ mpc = "inject"
    /\ pinjected = NumItems
    /\ ~Full(cq["download_queue"])
    /\ cq' = [cq EXCEPT !["download_queue"] = close(@)]
    /\ mpc' = "join_download"
    /\ UNCHANGED <<swpc, switem, pstarted, pinjected, finished>>
    /\ UNCHANGED demoState
    /\ QueueOnly

\* <name>.join() of lines 351, 353, 355
PJoin(name, next) ==
    /\ mpc = "join_" \o name
    /\ Joinable(cq[name \o "_queue"])
    /\ mpc' = next
    /\ UNCHANGED <<cq, swpc, switem, pstarted, pinjected, finished>>
    /\ UNCHANGED demoState
    /\ QueueOnly

\* <name>.close() of lines 352, 354
PClose(name) ==
    /\ mpc = "close_" \o name
    /\ ~Full(cq[name \o "_queue"])
    /\ cq' = [cq EXCEPT ![name \o "_queue"] = close(@)]
    /\ mpc' = "join_" \o name
    /\ UNCHANGED <<swpc, switem, pstarted, pinjected, finished>>
    /\ UNCHANGED demoState
    /\ QueueOnly

\* print(done_queue.qsize(), 'item finished')
PPrint ==
    /\ mpc = "print"
    /\ finished' = qsize(cq["done_queue"])
    /\ mpc' = "done"
    /\ UNCHANGED <<cq, swpc, switem, pstarted, pinjected>>
    /\ UNCHANGED demoState
    /\ QueueOnly

\* ClosableQueue.__iter__: what follows item = self.get().  The SENTINEL ends
\* the iteration (only the finally clause is left to run); any other item is
\* yielded to the body of the for loop in StoppableWorker.run.
\* (Faulty variants: TreatsSentinelAsItem yields the SENTINEL like any item;
\* SkipsSentinelAck returns on the SENTINEL without the finally clause.)
TreatsSentinelAsItem(item) == "work"
SkipsSentinelAck(item) == IF item = SENTINEL THEN "exited" ELSE "work"
AfterGet(item) == IF item = SENTINEL THEN "ack_sentinel" ELSE "work"

\* ClosableQueue.__iter__: item = self.get()
SWGet(w) ==
    /\ swpc[w] = "get"
    /\ ~Empty(cq[in_queue_of(w)])
    /\ switem' = [switem EXCEPT ![w] = Head(cq[in_queue_of(w)].items)]
    /\ cq' = [cq EXCEPT ![in_queue_of(w)] = get(@)]
    /\ swpc' = [swpc EXCEPT ![w] = AfterGet(Head(cq[in_queue_of(w)].items))]
    /\ UNCHANGED <<mpc, pstarted, pinjected, finished>>
    /\ UNCHANGED demoState
    /\ QueueOnly

\* StoppableWorker.run: result = self.func(item); self.out_queue.put(result)
SWWork(w) ==
    /\ swpc[w] = "work"
    /\ ~Full(cq[out_queue_of(w)])
    /\ cq' = [cq EXCEPT ![out_queue_of(w)] = put(@, func(w, switem[w]))]
    /\ swpc' = [swpc EXCEPT ![w] = "task_done"]
    /\ UNCHANGED <<switem, mpc, pstarted, pinjected, finished>>
    /\ UNCHANGED demoState
    /\ QueueOnly

\* ClosableQueue.__iter__: the finally clause after a yielded item, then the
\* next round of while True
SWTaskDone(w) ==
    /\ swpc[w] = "task_done"
    /\ cq' = [cq EXCEPT ![in_queue_of(w)] = task_done(@)]
    /\ swpc' = [swpc EXCEPT ![w] = "get"]
    /\ UNCHANGED <<switem, mpc, pstarted, pinjected, finished>>
    /\ UNCHANGED demoState
    /\ QueueOnly

\* ClosableQueue.__iter__: the finally clause after return; the for loop of
\* run is exhausted and the thread exits
SWAckSentinel(w) ==
    /\ swpc[w] = "ack_sentinel"
    /\ cq' = [cq EXCEPT ![in_queue_of(w)] = task_done(@)]
    /\ swpc' = [swpc EXCEPT ![w] = "exited"]
    /\ UNCHANGED <<switem, mpc, pstarted, pinjected, finished>>
    /\ UNCHANGED demoState
    /\ QueueOnly

PMain ==
    \/ PStart
    \/ PInject
    \/ PCloseDownload
    \/ PJoin("download", "close_resize")
    \/ PClose("resize")
    \/ PJoin("resize", "close_upload")
    \/ PClose("upload")
    \/ PJoin("upload", "print")
    \/ PPrint

SWStep(w) ==
    \/ SWGet(w)
    \/ SWWork(w)
    \/ SWTaskDone(w)
    \/ SWAckSentinel(w)

InitQueue == QueueIdle /\ NoQueue

Main ==
    \/ AMain
    \/ BMain
    \/ CMain
    \/ PMain

Consumer ==
    \/ AConsumer
    \/ BConsumer
    \/ CConsumer

NextQueue ==
    \/ Main
    \/ Consumer
    \/ \E w \in Workers : SWStep(w)

SpecQueue == InitQueue /\ [][NextQueue]_vars

\* Threads are scheduled fairly: a thread that can take a step and stays able
\* to take it eventually takes it.
FairSpecQueue ==
    /\ SpecQueue
    /\ WF_vars(Main)
    /\ WF_vars(Consumer)
    /\ \A w \in Workers : WF_vars(SWStep(w))

(***************************************************************************)
(* Properties of the Queue part of item_39.                                *)
(***************************************************************************)
\* The place of the first line equal to x in the printed lines s (0: none).
Pos(s, x) ==
    IF \E i \in 1..Len(s) : s[i] = x
    THEN CHOOSE i \in 1..Len(s) : s[i] = x /\ \A j \in 1..(i - 1) : s[j] # x
    ELSE 0

\* The lines of out from place a to place b, as far as they are printed.
Lines(a, b) == SubSeq(out, a, IF Len(out) < b THEN Len(out) ELSE b)

\* The blocking get demo prints 4 lines, the buffer size demo the next 5 and
\* the task_done demo the 5 after those.
OutA == Lines(1, 4)
OutB == Lines(5, 9)
OutC == Lines(10, 14)

AllExited == \A w \in Workers : swpc[w] = "exited"

\* C1: once the main thread has put NumItems items, closed and joined the
\* three input queues in order, done_queue holds exactly NumItems items, one
\* output (None) per injected item, and that is the number line 356 prints.
C1_AllItemsDone ==
    mpc \in {"print", "done"} =>
        /\ cq["done_queue"].items = [i \in 1..NumItems |-> None]
        /\ (mpc = "done" => finished = NumItems)

C1_Witness == mpc = "done" /\ finished = NumItems /\ pinjected = NumItems

\* C2: a worker whose iterator took the SENTINEL takes nothing more and runs
\* to its end, and under fair scheduling all three workers have exited for
\* good at some point.
C2_WorkersExit ==
    /\ [](\A w \in Workers :
             switem[w] = SENTINEL => swpc[w] \in {"ack_sentinel", "exited"})
    /\ <>[]AllExited

C2_Witness == AllExited /\ \A w \in Workers : switem[w] = SENTINEL

\* C3: in_queue.join() of the task_done demo has not returned unless the
\* consumer has called task_done; the unfinished count of every consumed
\* queue is its pending items plus the item its consumer took and has not
\* acknowledged yet (the SENTINEL included), so every get is matched by
\* exactly one task_done; and a join of the pipeline returns only when the
\* worker reading that queue has acknowledged its last item.
Held(pc) == IF pc \in {"work", "task_done", "ack_sentinel"} THEN 1 ELSE 0

C3_JoinAfterTaskDone ==
    /\ mpc = "C_done" => cpc = "exited" /\ in_queue.unfinished = 0
    /\ mpc \in {"C_put", "C_print_waiting", "C_join", "C_done"} =>
           in_queue.unfinished = Len(in_queue.items)
               + (IF cpc \in {"C_working", "C_done", "C_task_done"} THEN 1 ELSE 0)
    /\ \A w \in Workers :
           cq[in_queue_of(w)].unfinished
               = Len(cq[in_queue_of(w)].items) + Held(swpc[w])
    /\ mpc \in {"close_resize", "join_resize"} => swpc[1] = "exited"
    /\ mpc \in {"close_upload", "join_upload"} => swpc[1] = "exited" /\ swpc[2] = "exited"
    /\ mpc \in {"print", "done"} => AllExited

C3_Witness ==
    /\ mpc = "done"
    /\ AllExited
    /\ \A n \in QueueNames \ {"done_queue"} : cq[n].unfinished = 0
    /\ OutC = <<"Consumer waiting", "Producer waiting", "Consumer working",
                "Consumer done", "Producer done">>

\* C4: in the buffer size demo the queue never holds more than BufferSize
\* items, and the second put of the producer has completed only if the
\* consumer has returned from its first get.
C4_PutBlocksWhenFull ==
    mpc \in {"B_put1", "B_print1", "B_put2", "B_print2", "B_join", "B_done"} =>
        /\ Len(queue.items) <= BufferSize
        /\ (mpc \in {"B_print2", "B_join", "B_done"} =>
                cpc \notin {"B_sleep", "B_get1"})

C4_Witness == mpc = "B_print2" /\ cpc = "B_got1" /\ Len(queue.items) = BufferSize

\* C5: no queue of the pipeline ever holds more pending items than the
\* buffer size.
C5_QueuesBounded == \A n \in QueueNames : Len(cq[n].items) <= BufferSize

\* C6: in the blocking get demo the consumer returns from get only after the
\* producer's put, 'Consumer done' is printed after 'Producer putting' and
\* before 'Producer done', and thread.join() eventually returns.
C6_GetBlocks ==
    /\ [](/\ cpc \in {"A_done", "exited"} => mpc \notin {"A_start", "A_putting", "A_put"}
          /\ Pos(OutA, "Consumer done") > 0 =>
                 /\ Pos(OutA, "Producer putting") > 0
                 /\ Pos(OutA, "Producer putting") < Pos(OutA, "Consumer done")
          /\ Pos(OutA, "Producer done") > 0 =>
                 /\ Pos(OutA, "Consumer done") > 0
                 /\ Pos(OutA, "Consumer done") < Pos(OutA, "Producer done"))
    /\ <>(mpc = "A_done" /\ cpc = "exited")

C6_Witness ==
    /\ mpc = "B_start"
    /\ OutA = <<"Consumer waiting", "Producer putting", "Consumer done",
                "Producer done">>

\* C7: the buffer size demo prints its five lines in exactly this order.
C7_PrintOrder ==
    mpc = "C_start" =>
        OutB = <<"Producer put 1", "Consumer got 1", "Producer put 2",
                 "Consumer got 2", "Producer done">>

(***************************************************************************)
(* Properties of the polling pipeline of item_39.                          *)
(***************************************************************************)
\* The items Worker w has taken from its input queue, and those it has put
\* on its output queue.
Taken(w) == work_done[w] + (IF wpc[w] \in {"put", "count"} THEN 1 ELSE 0)
Produced(w) == work_done[w] + (IF wpc[w] = "count" THEN 1 ELSE 0)

\* C8: under fair scheduling the busy wait of the main thread ends and the
\* processed count is NumItems; a Worker whose get raises IndexError changes
\* neither its work_done nor any queue, so that every queue holds exactly
\* what its producer put and its consumer has not taken.
C8_PollingCompletes ==
    /\ <>(kpc = "done" /\ processed = NumItems)
    /\ [][\A w \in Workers :
            wpc[w] = "get" /\ wpc'[w] = "sleep" =>
                work_done' = work_done /\ items' = items]_vars
    /\ [](/\ Len(items["done_queue"]) = Produced(3)
          /\ Len(items["upload_queue"]) = Produced(2) - Taken(3)
          /\ Len(items["resize_queue"]) = Produced(1) - Taken(2)
          /\ \A w \in Workers : Taken(w) <= NumItems)

C8_Witness ==
    /\ kpc = "done"
    /\ processed = NumItems
    /\ \E w \in Workers : wpc[w] = "sleep" /\ polled_count[w] > work_done[w] + 1

(***************************************************************************)
(* Properties of item_38.                                                  *)
(***************************************************************************)
\* f[1] + ... + f[n]
RECURSIVE Sum(_, _)
Sum(f, n) == IF n = 0 THEN 0 ELSE f[n] + Sum(f, n - 1)

\* The threads that hold or are about to release the lock of LockingCounter.
InCriticalSection == {t \in Threads : tpc[t] \in {"read", "add", "write", "release"}}

\* The current run_threads has started the threads 1..Started so far.
Started == IF rpc = "start" THEN rcount ELSE NumThreads

\* C9: with LockingCounter at most one thread is between acquiring and
\* releasing the lock (so between reading and writing count); count is the
\* number of increments completed whenever the lock is free; and once
\* run_threads has joined the 5 threads count is 5 * how_many, which is what
\* line 142 prints.
C9_LockingCounterExact ==
    counter.cls = "LockingCounter" =>
        /\ Cardinality(InCriticalSection) <= 1
        /\ (counter.lock = 0 /\ rpc \in {"start", "join"} =>
                counter.count = Sum(ti, Started))
        /\ (rpc \in {"print", "done"} => counter.count = 5 * HowMany)
        /\ (rpc = "done" => report[Len(report)] = <<5 * HowMany, 5 * HowMany>>)

C9_Witness ==
    /\ rpc = "done"
    /\ counter.cls = "LockingCounter"
    /\ counter.count = 5 * HowMany
    /\ \A t \in Threads : ti[t] = HowMany

\* C10: with the unlocked Counter a write stores the value the thread read
\* plus the offset, whatever count has become since; count never exceeds the
\* number of increments completed; the value printed after the join lies in
\* FoundRange; the state at line 140 is as AtLine140 says; and lines 102-109,
\* which increment for A and for B, leave count only one above value_a.
C10_StaleWrites ==
    /\ \A t \in Threads : tpc[t] = "write" => tresult[t] = tvalue[t] + 1
    /\ counter.cls = "Counter" /\ rpc \in {"start", "join", "print"} =>
           counter.count <= Sum(ti, NumThreads)
    /\ Len(report) > 0 => report[1][1] = 5 * HowMany /\ report[1][2] \in FoundRange
    /\ rpc = "new_counter" =>
           /\ AtLine140(report[1][2])
           /\ locals.value_b = locals.value_a
           /\ counter.count = locals.value_a + 1

\* There is an interleaving in which an increment is erased: all threads are
\* joined, every thread has done its how_many increments, and line 70 has
\* printed less than 5 * how_many.
C10_Witness ==
    /\ rpc = "value_a"
    /\ \A t \in Threads : tpc[t] = "exited" /\ ti[t] = HowMany
    /\ report[1][2] < 5 * HowMany
    /\ counter.count = report[1][2]

(***************************************************************************)
(* item_40: advancing the generator, and the script of lines 431-436.      *)
(***************************************************************************)
\* sim.send(value), with the record of what the running step_cell yields
\* and is sent.  A step_cell is over once it has yielded its Transition.
Advance(value) ==
    LET fresh == ~isinstance(life.sim.item, "Query")
        next == send(life.sim, value)
    IN  [life EXCEPT
            !.sim = next,
            !.cell_items =
                IF isinstance(next.item, "TICK") THEN <<>>
                ELSE IF fresh THEN <<next.item>>
                ELSE Append(@, next.item),
            !.cell_replies = IF fresh THEN <<>> ELSE Append(@, value),
            !.since_tick =
                IF isinstance(next.item, "Transition")
                THEN Append(@, <<next.item[2], next.item[3]>>)
                ELSE IF isinstance(life.sim.item, "TICK") THEN <<>>
                ELSE @]

\* Lines 169-190 and 264-273: a Query is answered with ALIVE or EMPTY.
ItSend ==
    /\ isinstance(life.sim.item, "Query")
    /\ \E state \in {ALIVE, EMPTY} : life' = Advance(state)
    /\ LifeOnly

\* next(it): the generator is started, or goes on after a Transition or TICK.
ItNext ==
    /\ ~isinstance(life.sim.item, "Query")
    /\ life' = Advance(None)
    /\ LifeOnly

\* simulate(height, GridWidth) for the heights up to GridHeight, advanced
\* by a caller that keeps to the interface contract.
InitSimulate ==
    /\ \E height \in 0..GridHeight : SimIdle(height, GridWidth, ScriptAbsent)
    /\ NoLife

NextSimulate == ItSend \/ ItNext

SpecSimulate == InitSimulate /\ [][NextSimulate]_vars

\* "as long as it is advanced": the caller never stops.
FairSpecSimulate == SpecSimulate /\ WF_vars(NextSimulate)

\* Line 433: colums.append(str(grid))
GAppend ==
    /\ life.pc = "loop"
    /\ life.generation < Generations
    /\ life' = [life EXCEPT
                   !.colums =
                       Append(@, Str(life.grid,
                                     life.grid.height * life.grid.width)),
                   !.pc = "call"]
    /\ LifeOnly

\* live_a_generation, lines 353-354
GCall ==
    /\ life.pc = "call"
    /\ LET advanced == Advance(None)
       IN  life' = [advanced EXCEPT
                       !.progeny = Grid(life.grid.height, life.grid.width),
                       !.item = advanced.sim.item,
                       !.pc = "while"]
    /\ LifeOnly

\* live_a_generation, lines 355-362: the test of the while loop and, when
\* it holds, one round of the body.  item.next(sim) at line 362 raises
\* AttributeError: a Transition has no attribute next.
GWhile ==
    /\ life.pc = "while"
    /\ life' =
         IF life.item = Not(TICK)
         THEN IF isinstance(life.item, "Query")
              THEN LET advanced ==
                           Advance(query(life.grid, life.item[2],
                                         life.item[3]))
                   IN  [advanced EXCEPT !.item = advanced.sim.item]
              ELSE [life EXCEPT
                       !.progeny = assign(@, life.item[2], life.item[3],
                                          life.item[4]),
                       !.pc = "AttributeError"]
         ELSE [life EXCEPT !.pc = "return"]
    /\ LifeOnly

\* Lines 363 and 434: grid = live_a_generation(grid, sim)
GReturn ==
    /\ life.pc = "return"
    /\ life' = [life EXCEPT
                   !.grid = life.progeny,
                   !.generation = @ + 1,
                   !.pc = "loop"]
    /\ LifeOnly

\* Line 436: print(colums)
GPrint ==
    /\ life.pc = "loop"
    /\ life.generation = Generations
    /\ life' = [life EXCEPT !.pc = "done"]
    /\ LifeOnly

InitLife == LifeIdle /\ NoLife

NextLife == GAppend \/ GCall \/ GWhile \/ GReturn \/ GPrint

SpecLife == InitLife /\ [][NextLife]_vars

(***************************************************************************)
(* Properties of item_40.                                                  *)
(***************************************************************************)
\* The coordinates of a grid, y outer and x inner.
RowMajor(height, width) ==
    [n \in 1..(height * width) |-> <<(n - 1) \div width, (n - 1) % width>>]

\* The eight neighbours of (y, x), clockwise from the one at y + 1.
Ring(y, x) ==
    << <<y + 1, x>>, <<y + 1, x + 1>>, <<y, x + 1>>, <<y - 1, x + 1>>,
       <<y - 1, x>>, <<y - 1, x - 1>>, <<y, x - 1>>, <<y + 1, x - 1>> >>

\* How many of the replies first..last the running step_cell got are ALIVE.
AliveReplies(first, last) ==
    Cardinality({i \in first..last : life.cell_replies[i] = ALIVE})

\* The next state of the cell (y, x) of grid under the rules of the game.
Successor(g, y, x) ==
    LET living == Cardinality({i \in 1..8 :
                      query(g, Ring(y, x)[i][1], Ring(y, x)[i][2]) = ALIVE})
        state == query(g, y, x)
    IN  IF state = ALIVE /\ (living < 2 \/ living > 3) THEN EMPTY
        ELSE IF state = EMPTY /\ living = 3 THEN ALIVE
        ELSE state

\* C11: when live_a_generation(grid, sim) returns, the grid it returns
\* holds at every coordinate (y, x) the next state of that cell: the
\* outcome of the rules for grid.query(y, x) and the number of ALIVE cells
\* among its eight wrapped neighbours.
C11_NextGeneration ==
    life.pc = "return" =>
        \A y \in 0..(life.grid.height - 1), x \in 0..(life.grid.width - 1) :
            query(life.progeny, y, x) = Successor(life.grid, y, x)

\* C12: between two TICKs simulate yields the Transitions of the
\* coordinates in row-major order, one per coordinate: the cells done since
\* the last TICK are at any time the first ones in row-major order, the
\* running step_cell is the one of the next coordinate, at a TICK all
\* height * width are done; and a simulate that is advanced yields TICK
\* again and again.
CellsInOrder ==
    LET order == RowMajor(life.sim.height, life.sim.width)
        done == Len(life.since_tick)
    IN  /\ done <= Len(order)
        /\ life.since_tick = SubSeq(order, 1, done)
        /\ isinstance(life.sim.item, "TICK") => done = life.sim.height * life.sim.width
        /\ isinstance(life.sim.item, "Query") =>
             /\ done < Len(order)
             /\ life.cell_items[1] = Query(order[done + 1][1], order[done + 1][2])
C12_GenerationsThenTick ==
    /\ []CellsInOrder
    /\ []<>isinstance(life.sim.item, "TICK")
C12_Witness ==
    /\ isinstance(life.sim.item, "TICK")
    /\ life.sim.height = GridHeight /\ life.sim.width = GridWidth
    /\ Len(life.since_tick) = GridHeight * GridWidth
    /\ life.since_tick[GridWidth + 1] = <<1, 0>>

\* C13: the items of a step_cell(y, x) are, in this order, Query(y, x),
\* the eight Queries of count_neighbors(y, x) and Transition(y, x,
\* game_logic(state, neighbors)), where state is the first reply and
\* neighbors the count count_neighbors returned; there are never more than
\* ten, and a Transition is the tenth, yielded after nine replies.
C13_StepCellItems ==
    LET n == Len(life.cell_items)
        y == life.sim.y
        x == life.sim.x
    IN  /\ n <= 10
        /\ Len(life.cell_replies) = (IF n = 0 THEN 0 ELSE n - 1)
        /\ n >= 1 => life.cell_items[1] = Query(y, x)
        /\ \A i \in 2..9 : i <= n => life.cell_items[i] = Neighbors(y, x)[i - 1]
        /\ n = 10 =>
             life.cell_items[10] =
                 Transition(y, x, game_logic(life.cell_replies[1], life.sim.neighbors))
        /\ \A i \in 1..n : isinstance(life.cell_items[i], "Transition") =>
             i = 10 /\ Len(life.cell_replies) = 9
C13_Witness ==
    /\ Len(life.cell_items) = 10
    /\ life.cell_replies[1] = ALIVE
    /\ life.sim.neighbors = 2
    /\ life.cell_items[10] = Transition(1, 1, ALIVE)

\* C14: count_neighbors(y, x) asks for the neighbours in the order
\* (y+1,x), (y+1,x+1), (y,x+1), (y-1,x+1), (y-1,x), (y-1,x-1), (y,x-1),
\* (y+1,x-1); the count it returns after the eighth reply is the number of
\* its replies that are ALIVE, a number in 0..8.
C14_CountNeighbors ==
    /\ \A i \in 1..8 : Len(life.cell_items) >= i + 1 =>
         life.cell_items[i + 1] =
             Query(Ring(life.cell_items[1][2], life.cell_items[1][3])[i][1],
                   Ring(life.cell_items[1][2], life.cell_items[1][3])[i][2])
    /\ Len(life.cell_replies) = 9 =>
         /\ life.sim.neighbors = AliveReplies(2, 9)
         /\ life.sim.neighbors \in 0..8
\* The replies of lines 171-187: ALIVE, EMPTY, ALIVE and five times EMPTY
\* make a count of 2.
C14_Witness ==
    /\ Len(life.cell_replies) = 9
    /\ SubSeq(life.cell_replies, 2, 9) =
         <<ALIVE, EMPTY, ALIVE, EMPTY, EMPTY, EMPTY, EMPTY, EMPTY>>
    /\ life.sim.neighbors = 2

\* C15: the state game_logic(state, neighbors) puts into the Transition:
\* EMPTY for an ALIVE cell with fewer than 2 or more than 3 living
\* neighbours, ALIVE for an EMPTY cell with exactly 3, and state itself in
\* every other case.
C15_GameLogic ==
    isinstance(life.sim.item, "Transition") /\ life.sim.state \in {ALIVE, EMPTY} =>
        /\ life.sim.neighbors \in 0..8
        /\ life.sim.state = ALIVE /\ (life.sim.neighbors < 2 \/ life.sim.neighbors > 3) =>
             life.sim.item[4] = EMPTY
        /\ life.sim.state = EMPTY /\ life.sim.neighbors = 3 => life.sim.item[4] = ALIVE
        /\ ~(life.sim.state = ALIVE /\ (life.sim.neighbors < 2 \/ life.sim.neighbors > 3))
             /\ ~(life.sim.state = EMPTY /\ life.sim.neighbors = 3) =>
             life.sim.item[4] = life.sim.state
C15_Witness ==
    /\ isinstance(life.sim.item, "Transition")
    /\ life.sim.state = EMPTY
    /\ life.sim.neighbors = 3
    /\ life.sim.item[4] = ALIVE

(***************************************************************************)
(* item_13: divide_json, lines 77-93.                                      *)
(***************************************************************************)
\* Line 78: handle = open(path, 'r+'), outside the try statement.
JOpen ==
    /\ divide.pc = "open"
    /\ divide' =
         IF divide.file = None
         THEN [divide EXCEPT !.outcome = Raise("IOError"), !.pc = "done"]
         ELSE [divide EXCEPT !.handle = Open, !.pc = "read"]
    /\ JsonOnly

\* Line 80: data = handle.read()
JRead ==
    /\ divide.pc = "read"
    /\ divide' =
         IF Undecodable(divide.file)
         THEN [divide EXCEPT
                  !.pending = Raise("UnicodeDecodeError"),
                  !.pc = "finally"]
         ELSE [divide EXCEPT !.data = divide.file, !.pc = "loads"]
    /\ JsonOnly

\* Line 81: op = json.loads(data)
JLoads ==
    /\ divide.pc = "loads"
    /\ LET r == loads(divide.data)
       IN  divide' =
             IF Raised(r)
             THEN [divide EXCEPT !.pending = r, !.pc = "finally"]
             ELSE [divide EXCEPT !.op = r[2], !.pc = "divide"]
    /\ JsonOnly

\* Lines 82-85: the division, and the except block if it raises
\* ZeroDivisionError.
JDivide ==
    /\ divide.pc = "divide"
    /\ LET r == Divide(divide.op)
       IN  divide' =
             IF r = Raise("ZeroDivisionError")
             THEN [divide EXCEPT
                      !.pending = Return(UNDEFINED),
                      !.pc = "finally"]
             ELSE IF Raised(r)
             THEN [divide EXCEPT !.pending = r, !.pc = "finally"]
             ELSE [divide EXCEPT !.value = r[2], !.pc = "else"]
    /\ JsonOnly

\* Lines 87-91, the else block; handle.write may raise IOError.
JElse ==
    /\ divide.pc = "else"
    /\ LET assigned == setitem(divide.op, "result", divide.value)
       IN  \E written \in BOOLEAN :
             divide' =
               IF written
               THEN [divide EXCEPT
                        !.op = assigned,
                        !.file = Overwrite(@, dumps(assigned)),
                        !.writes = Append(@, dumps(assigned)),
                        !.pending = Return(divide.value),
                        !.pc = "finally"]
               ELSE [divide EXCEPT
                        !.op = assigned,
                        !.pending = Raise("IOError"),
                        !.pc = "finally"]
    /\ JsonOnly

\* Lines 92-93: handle.close(), after which the pending return or
\* exception takes effect.
JFinally ==
    /\ divide.pc = "finally"
    /\ divide' = [divide EXCEPT
                     !.handle = Close(@),
                     !.outcome = divide.pending,
                     !.pc = "done"]
    /\ JsonOnly

InitJson == JsonIdle /\ NoJson

NextJson == JOpen \/ JRead \/ JLoads \/ JDivide \/ JElse \/ JFinally

SpecJson == InitJson /\ [][NextJson]_vars

(***************************************************************************)
(* Properties of item_13.                                                  *)
(***************************************************************************)
\* The file after a successful call on a description of n / d.
WorkDone(n, d, quotient) ==
    <<"{", Quoted("numerator"), ":", " ", ToString(n), ",", " ",
      Quoted("denominator"), ":", " ", ToString(d), ",", " ",
      Quoted("result"), ":", " ", quotient, "}">>

\* n / d as json.dumps writes it, for the quotients the model reaches.
QuotientText(n, d) ==
    CASE d = 1 -> ToString(n) \o ".0"
      [] d = 2 /\ n % 2 = 0 -> ToString(n \div 2) \o ".0"
      [] d = 2 /\ n % 2 = 1 -> ToString(n \div 2) \o ".5"

\* C16: once the file has been opened, divide_json(path) ends with the
\* handle closed, however it ends.  Called on a description of n / d with
\* d not 0 it either returns the quotient, having written the JSON with the
\* result key at the start of the file, or lets the IOError of the write
\* through; with d = 0 it returns UNDEFINED and writes nothing; on a file
\* that makes the try block raise another exception it lets that exception
\* through and writes nothing.
C16_DivideJson ==
    divide.pc = "done" =>
        /\ divide.handle # None => Closed(divide.handle)
        /\ divide.given # None => divide.handle # None
        /\ \A n \in 0..MaxNumber, d \in Denominators :
             divide.given = Work(n, d) =>
                 IF d = 0
                 THEN divide.outcome = Return(UNDEFINED) /\ divide.writes = <<>> /\ divide.file = divide.given
                 ELSE \/ /\ divide.outcome = Return(JFloat((2 * n) \div d))
                         /\ divide.writes = <<WorkDone(n, d, QuotientText(n, d))>>
                         /\ divide.file = divide.writes[1]
                      \/ /\ divide.outcome = Raise("IOError")
                         /\ divide.writes = <<>> /\ divide.file = divide.given
        /\ divide.outcome[1] = "return" /\ divide.outcome # Return(UNDEFINED) =>
             /\ Len(divide.writes) = 1
             /\ SubSeq(divide.file, 1, Len(divide.writes[1])) = divide.writes[1]
             /\ loads(divide.writes[1]) = Return(divide.op)
             /\ getitem(divide.op, "result") = Return(divide.outcome[2])
        /\ divide.given = BadNumerator => divide.outcome = Raise("TypeError")
        /\ divide.given = NoNumerator => divide.outcome = Raise("KeyError")
        /\ divide.given = NotADict => divide.outcome = Raise("TypeError")
        /\ divide.given = NotJson => divide.outcome = Raise("ValueError")
        /\ divide.given = NotText => divide.outcome = Raise("UnicodeDecodeError")
        /\ Raised(divide.outcome) \/ divide.outcome = Return(UNDEFINED) =>
             divide.writes = <<>> /\ divide.file = divide.given
C16_Witness ==
    /\ divide.pc = "done"
    /\ divide.given = Padded(1, 2)
    /\ divide.outcome = Return(JFloat(1))
    /\ Closed(divide.handle)
    /\ divide.file = WorkDone(1, 2, "0.5") \o <<" ", " ">>

(***************************************************************************)
(* item_24: mapreduce (lines 119-122 and 244-246) and execute (102-112).   *)
(***************************************************************************)
\* Lines 120-121 and 245: the workers are created, one per file.
XCreate ==
    /\ mapreduce.pc = "call"
    /\ LET r == IF mapreduce.call = "mapreduce@119"
                THEN create_workers("LineCountWorker@64",
                                    "PathInputData@30", mapreduce.dir)
                ELSE create_workers("LineCountWorker@231",
                                    "PathInputData@188", mapreduce.dir)
       IN  mapreduce' =
             IF Raised(r)
             THEN [mapreduce EXCEPT !.outcome = r, !.pc = "done"]
             ELSE [mapreduce EXCEPT !.workers = r[2], !.pc = "execute"]
    /\ MapReduceOnly

\* Line 103: threads = [threading.Thread(target=w.wap) for w in workers]
XThreads ==
    /\ mapreduce.pc = "execute"
    /\ mapreduce' =
         IF \E i \in 1..Len(mapreduce.workers) :
                ~HasAttr(mapreduce.workers[i], "wap")
         THEN [mapreduce EXCEPT
                  !.outcome = Raise("AttributeError"),
                  !.pc = "done"]
         ELSE [mapreduce EXCEPT
                  !.threads = [i \in 1..Len(mapreduce.workers) |-> "wap"],
                  !.pc = "start"]
    /\ MapReduceOnly

\* Lines 104-107: every thread is started and joined; a thread runs its
\* target on its worker.
XJoin ==
    /\ mapreduce.pc = "start"
    /\ mapreduce' =
         [mapreduce EXCEPT
             !.workers = [i \in 1..Len(mapreduce.threads) |-> map(@[i])],
             !.pc = "reduce"]
    /\ MapReduceOnly

\* Lines 109-112: workers[0] raises IndexError on an empty list.
XReduce ==
    /\ mapreduce.pc = "reduce"
    /\ mapreduce' =
         IF mapreduce.workers = <<>>
         THEN [mapreduce EXCEPT
                  !.outcome = Raise("IndexError"),
                  !.pc = "done"]
         ELSE LET r == ReduceAll(Head(mapreduce.workers),
                                 Tail(mapreduce.workers))
              IN  IF Raised(r)
                  THEN [mapreduce EXCEPT !.outcome = r, !.pc = "done"]
                  ELSE [mapreduce EXCEPT
                           !.workers = <<r[2]>> \o Tail(@),
                           !.outcome = Return(r[2][3]),
                           !.pc = "done"]
    /\ MapReduceOnly

InitMapReduce == MapReduceIdle /\ NoMapReduce

NextMapReduce == XCreate \/ XThreads \/ XJoin \/ XReduce

SpecMapReduce == InitMapReduce /\ [][NextMapReduce]_vars

(***************************************************************************)
(* Properties of item_24.                                                  *)
(***************************************************************************)
\* The number of newlines in the files 1..n of a directory.
RECURSIVE Newlines(_, _)
Newlines(dir, n) ==
    IF n = 0 THEN 0
    ELSE Newlines(dir, n - 1)
             + Cardinality({i \in 1..Len(dir[n]) : dir[n][i] = "\n"})

\* C17: a call of execute(workers), of mapreduce(data_dir) or of the
\* generic mapreduce ends by returning the sum of the map results of all
\* workers, the number of newlines in all files; so the two mapreduce
\* functions return the same on the same directory.
C17_MapReduceTotal ==
    mapreduce.pc = "done" => mapreduce.outcome = Return(Newlines(mapreduce.dir, Len(mapreduce.dir)))

(***************************************************************************)
(* item_56: a call of to_str, as the tests of lines 57-65 make.            *)
(***************************************************************************)
UCall ==
    /\ utils.pc = "call"
    /\ utils' = [utils EXCEPT !.outcome = to_str(utils.data), !.pc = "done"]
    /\ UtilsOnly

InitUtils == UtilsIdle /\ NoUtils

NextUtils == UCall

SpecUtils == InitUtils /\ [][NextUtils]_vars

(***************************************************************************)
(* Properties of item_56.                                                  *)
(***************************************************************************)
\* The UTF-8 encoding of one code point and of a sequence of code points.
EncodePoint(c) ==
    IF c < 128 THEN <<c>>
    ELSE IF c < 2048 THEN <<192 + (c \div 64), 128 + (c % 64)>>
    ELSE IF c < 65536
    THEN <<224 + (c \div 4096), 128 + ((c \div 64) % 64), 128 + (c % 64)>>
    ELSE <<240 + (c \div 262144), 128 + ((c \div 4096) % 64),
           128 + ((c \div 64) % 64), 128 + (c % 64)>>
RECURSIVE Encode(_)
Encode(chars) ==
    IF chars = <<>> THEN <<>>
    ELSE EncodePoint(Head(chars)) \o Encode(Tail(chars))

\* The strings the model calls to_str on.
Strings == UNION {[1..n -> Chars] : n \in 0..MaxBytes} \cup {hello}

\* C18: to_str(data) returns data itself if data is a str; if data is a
\* bytes object, what it returns is a str whose UTF-8 encoding is data,
\* and it does return that str if data is the encoding of one of the
\* strings of the model; for a value of any other type it raises
\* TypeError.
C18_ToStr ==
    utils.pc = "done" =>
        /\ isinstance(utils.data, "str") => utils.outcome = Return(utils.data)
        /\ isinstance(utils.data, "bytes") =>
             /\ utils.outcome[1] = "return" =>
                  /\ isinstance(utils.outcome[2], "str")
                  /\ Encode(utils.outcome[2][2]) = utils.data[2]
             /\ \A chars \in Strings :
                  Encode(chars) = utils.data[2] => utils.outcome = Return(str(chars))
        /\ ~isinstance(utils.data, "str") /\ ~isinstance(utils.data, "bytes") =>
             utils.outcome = Raise("TypeError")
C18_Witness ==
    /\ utils.pc = "done"
    /\ utils.data = bytes(<<104, 195, 169>>)
    /\ utils.outcome = Return(str(<<104, 233>>))

=============================================================================
